---- MODULE Spec2Model ----
(***************************************************************************)
(* Model of testt.py: a Streamlit script that loads an uploaded Excel      *)
(* file, lets the user pick a numeric column and runs up to four unit-root *)
(* tests (ADF, KPSS, Phillips-Perron, Range Unit Root) on it.              *)
(*                                                                         *)
(* Streamlit executes the script from its first line on every user         *)
(* interaction.  One such execution is a "pass"; pc is the position of the *)
(* pass in the script, output the elements it has rendered so far.         *)
(* p-values are modelled in hundredths (5 stands for 0.05).                *)
(***************************************************************************)
EXTENDS Integers, Sequences, FiniteSets, TLC

VARIABLES
    archInstalled,    \* environment: whether the 'arch' package can be imported
    lib,              \* environment: what each routine returns on the non-empty series
    uploaded,         \* widget state: the uploaded file (a name of Files), or "none"
    sel,              \* widget state: the selectbox's stored choice, or "none"
    chk,              \* widget state: the four checkboxes
    clicked,          \* whether this pass was triggered by the "Run Tests" button
    pc,               \* position of the pass in the script
    unhandled,        \* the call whose exception left main() unhandled, or "none"
    output,           \* elements rendered by this pass, in order
    df,               \* local df (line 22): the table's columns
    numeric_columns,  \* local numeric_columns (line 29)
    selected_column,  \* local selected_column (line 35)
    data,             \* local data (line 38)
    run,              \* locals run_adf, run_kpss, run_pp, run_rur (lines 49-52)
    result,           \* local result (lines 65, 93, 162)
    calls             \* per pass: how many times each routine has been invoked

vars == <<archInstalled, lib, uploaded, sel, chk, clicked, pc, unhandled, output,
          df, numeric_columns, selected_column, data, run, result, calls>>

env == <<archInstalled, lib>>
widgets == <<uploaded, sel, chk, clicked>>
locals == <<df, numeric_columns, selected_column, data, run, result>>

----------------------------------------------------------------------------
(* Bounds and constants *)

\* largest p-value (in hundredths) a routine may return
MaxP == 6

\* the significance threshold 0.05, in hundredths (lines 79, 106, 140, 175)
Alpha == 5

\* rows shown by df.head() (line 26)
HeadRows == 5

Kinds == {"ADF", "KPSS", "PP", "RUR"}

PVals == (Alpha - 1)..MaxP

----------------------------------------------------------------------------
(* Uploaded spreadsheets, as pd.read_excel sees them *)

Cell(v) == [nan |-> FALSE, v |-> v]
NaN == [nan |-> TRUE, v |-> 0]

Col(name, dtype, cells) == [name |-> name, dtype |-> dtype, cells |-> cells]

\* The files a user may upload: one that read_excel cannot parse, one whose
\* sheet is empty, one whose sheet has no numeric column, and one mixing text,
\* boolean and numeric columns, of which "z" holds only missing values.
Files ==
    [ corrupt |-> [parses |-> FALSE, cols |-> <<>>],
      empty   |-> [parses |-> TRUE, cols |-> <<>>],
      text    |-> [parses |-> TRUE,
                   cols |-> << Col("label", "object", <<Cell(1), Cell(2)>>),
                               Col("flag", "bool", <<Cell(1), Cell(0)>>) >>],
      mixed   |-> [parses |-> TRUE,
                   cols |-> << Col("label", "object", <<Cell(1), Cell(2), Cell(3)>>),
                               Col("y", "float64", <<Cell(7), NaN, Cell(9)>>),
                               Col("flag", "bool", <<Cell(1), Cell(0), Cell(1)>>),
                               Col("z", "float64", <<NaN, NaN, NaN>>) >>] ]

FileNames == DOMAIN Files

----------------------------------------------------------------------------
(* Rendered elements *)

Elt(sec, elt, msg, tab) == [sec |-> sec, elt |-> elt, msg |-> msg, tab |-> tab]

Offered(elt) == \E i \in 1..Len(output) : output[i].elt = elt

----------------------------------------------------------------------------
(* The external routines (lines 5-6), as black boxes *)

Returned(p, crit) ==
    [ok |-> TRUE, stat |-> 0 - 3, p |-> p, lags |-> 0, nobs |-> 0, crit |-> crit, err |-> ""]

Raised(msg) ==
    [ok |-> FALSE, stat |-> 0, p |-> 0, lags |-> 0, nobs |-> 0, crit |-> <<>>, err |-> msg]

\* The critical-value mappings a routine may return, each in the order the
\* routine populates it.  The source does not fix whether PhillipsPerron keys
\* its mapping by bare levels or by percent labels, so both are possible.
CritTables(kind) ==
    CASE kind = "ADF"  -> { << <<"1%", 0 - 4>>, <<"5%", 0 - 3>>, <<"10%", 0 - 2>> >> }
      [] kind = "KPSS" -> { << <<"10%", 1>>, <<"5%", 2>>, <<"2.5%", 3>>, <<"1%", 4>> >> }
      [] kind = "PP"   -> { << <<"1", 0 - 4>>, <<"5", 0 - 3>>, <<"10", 0 - 2>> >>,
                            << <<"1%", 0 - 4>>, <<"5%", 0 - 3>>, <<"10%", 0 - 2>> >> }
      [] kind = "RUR"  -> { << <<"10%", 1>>, <<"5%", 2>>, <<"2.5%", 3>>, <<"1%", 4>> >> }

\* What a routine may do on a non-empty series: raise, or return a p-value
\* and its critical values.
LibOutcomes(kind) ==
    {Raised("routine failed")}
        \cup {Returned(p, c) : p \in PVals, c \in CritTables(kind)}

\* Every routine raises on an empty series.
TooShort(x) == Len(x) = 0

adfuller(x) ==
    IF TooShort(x) THEN Raised("sample size is too short")
    ELSE IF lib["ADF"].ok THEN [lib["ADF"] EXCEPT !.nobs = Len(x) - 1 - lib["ADF"].lags]
    ELSE lib["ADF"]

kpss(x) == IF TooShort(x) THEN Raised("sample size is too short") ELSE lib["KPSS"]

PhillipsPerron(x) == IF TooShort(x) THEN Raised("sample size is too short") ELSE lib["PP"]

range_unit_root_test(x) ==
    IF TooShort(x) THEN Raised("sample size is too short") ELSE lib["RUR"]

----------------------------------------------------------------------------
(* Pure helpers of main() *)

\* IsNumeric, were bool counted as a number
IsNumeric_with_bool(dtype) == dtype \in {"int64", "float64", "bool"}

\* np.number under select_dtypes (line 29)
IsNumeric(dtype) == dtype \in {"int64", "float64"}

RECURSIVE SelectNumeric(_)
\* df.select_dtypes(include=[np.number]).columns.tolist() (line 29)
SelectNumeric(cols) ==
    IF cols = <<>> THEN <<>>
    ELSE IF IsNumeric(Head(cols).dtype)
         THEN <<Head(cols).name>> \o SelectNumeric(Tail(cols))
         ELSE SelectNumeric(Tail(cols))

RECURSIVE Dropna(_)
\* Series.dropna() (line 38)
Dropna(cells) ==
    IF cells = <<>> THEN <<>>
    ELSE IF Head(cells).nan THEN Dropna(Tail(cells))
         ELSE <<Head(cells).v>> \o Dropna(Tail(cells))

\* df[name] (line 38)
Column(cols, name) == (CHOOSE i \in 1..Len(cols) : cols[i].name = name)

Range(s) == {s[i] : i \in 1..Len(s)}

\* df.head() (line 26)
Preview(cols) ==
    [i \in 1..Len(cols) |->
        <<cols[i].name,
          SubSeq(cols[i].cells, 1,
                 IF Len(cols[i].cells) < HeadRows THEN Len(cols[i].cells) ELSE HeadRows)>>]

\* frame[name] = value: overwrite the column if present, else append it
SetCol(tab, name, value) ==
    IF \E i \in 1..Len(tab) : tab[i][1] = name
    THEN [i \in 1..Len(tab) |-> IF tab[i][1] = name THEN <<name, value>> ELSE tab[i]]
    ELSE Append(tab, <<name, value>>)

RECURSIVE SetCols(_, _)
SetCols(tab, entries) ==
    IF entries = <<>> THEN tab
    ELSE SetCols(SetCol(tab, Head(entries)[1], Head(entries)[2]), Tail(entries))

CritPrefix == "Critical Value ("

\* CritLabel, were the label written with a literal level instead of the key
CritLabel_fixed(key) == CritPrefix \o "5%" \o ")"

\* f'Critical Value ({key})' (lines 75, 102, 171)
CritLabel(key) == CritPrefix \o key \o ")"

\* f'Critical Value ({key}%)' (line 136)
PPCritLabel(key) == CritPrefix \o key \o "%)"

\* lines 67-75
AdfTable(r) ==
    SetCols(<< <<"Statistic", r.stat>>, <<"p-value", r.p>>, <<"Lags Used", r.lags>>,
               <<"Number of Observations", r.nobs>> >>,
            [i \in 1..Len(r.crit) |-> <<CritLabel(r.crit[i][1]), r.crit[i][2]>>])

\* lines 95-102
KpssTable(r) ==
    SetCols(<< <<"Statistic", r.stat>>, <<"p-value", r.p>>, <<"Lags Used", r.lags>> >>,
            [i \in 1..Len(r.crit) |-> <<CritLabel(r.crit[i][1]), r.crit[i][2]>>])

\* lines 127-136
PPTable(r) ==
    SetCols(<< <<"Statistic", r.stat>>, <<"p-value", r.p>>, <<"Lags Used", r.lags>> >>,
            [i \in 1..Len(r.crit) |-> <<PPCritLabel(r.crit[i][1]), r.crit[i][2]>>])

\* lines 164-171
RurTable(r) ==
    SetCols(<< <<"Statistic", r.stat>>, <<"p-value", r.p>> >>,
            [i \in 1..Len(r.crit) |-> <<CritLabel(r.crit[i][1]), r.crit[i][2]>>])

Stationary(why) == "The series is stationary (" \o why \o ")."
NonStationary(why) == "The series is non-stationary (" \o why \o ")."

\* lines 79-82
AdfVerdict(r) ==
    IF r.p <= Alpha
    THEN Elt("ADF", "success", Stationary("reject the null hypothesis"), <<>>)
    ELSE Elt("ADF", "warning", NonStationary("fail to reject the null hypothesis"), <<>>)

\* KpssVerdict, were the branches those of the ADF block
KpssVerdict_swapped(r) ==
    IF r.p <= Alpha
    THEN Elt("KPSS", "success", Stationary("reject the null hypothesis"), <<>>)
    ELSE Elt("KPSS", "warning", NonStationary("fail to reject the null hypothesis"), <<>>)

\* lines 106-109
KpssVerdict(r) ==
    IF r.p <= Alpha
    THEN Elt("KPSS", "warning", NonStationary("reject the null hypothesis"), <<>>)
    ELSE Elt("KPSS", "success", Stationary("fail to reject the null hypothesis"), <<>>)

\* lines 140-143
PPVerdict(r) ==
    IF r.p <= Alpha
    THEN Elt("PP", "success", Stationary("reject the null hypothesis"), <<>>)
    ELSE Elt("PP", "warning", NonStationary("fail to reject the null hypothesis"), <<>>)

\* lines 175-179
RurVerdict(r) ==
    IF r.p <= Alpha
    THEN Elt("RUR", "success", Stationary("reject the null hypothesis"), <<>>)
    ELSE Elt("RUR", "warning", NonStationary("fail to reject the null hypothesis"), <<>>)

----------------------------------------------------------------------------
(* The state after the page is first opened *)

NoResult == Raised("unset")

Init ==
    /\ archInstalled \in BOOLEAN
    /\ \E a \in LibOutcomes("ADF"), k \in LibOutcomes("KPSS"),
          p \in LibOutcomes("PP"), r \in LibOutcomes("RUR") :
            lib = [kind \in Kinds |->
                     CASE kind = "ADF" -> a [] kind = "KPSS" -> k
                       [] kind = "PP" -> p [] kind = "RUR" -> r]
    /\ uploaded = "none"
    /\ sel = "none"
    /\ chk = [kind \in Kinds |-> TRUE]
    /\ clicked = FALSE
    /\ pc = "import"
    /\ unhandled = "none"
    /\ output = <<>>
    /\ df = <<>>
    /\ numeric_columns = <<>>
    /\ selected_column = "none"
    /\ data = <<>>
    /\ run = [kind \in Kinds |-> FALSE]
    /\ result = NoResult
    /\ calls = [kind \in Kinds |-> 0]

----------------------------------------------------------------------------
(* One pass of the script *)

\* An exception nothing catches ends the pass where it is raised.
Crash(call) ==
    /\ pc' = "crashed"
    /\ unhandled' = call

\* NextPc, were the Phillips-Perron block placed before the KPSS block
NextPc_swapped(at) ==
    CASE at = "adf" -> "pp" [] at = "pp" -> "kpss" [] at = "kpss" -> "rur" [] at = "rur" -> "done"

\* The order of the four test blocks in main() (lines 58, 85, 114, 154)
NextPc(at) ==
    CASE at = "adf" -> "kpss" [] at = "kpss" -> "pp" [] at = "pp" -> "rur" [] at = "rur" -> "done"

\* lines 1-7: the module's imports, run before main() is defined
ImportModules ==
    /\ pc = "import"
    /\ IF archInstalled
       THEN pc' = "main" /\ UNCHANGED unhandled
       ELSE Crash("import")
    /\ UNCHANGED <<env, widgets, output, locals, calls>>

\* lines 11-20
Intro ==
    /\ pc = "main"
    /\ output' = output \o
         << Elt("app", "title", "Time Series Unit Root Tests - Dr. Merwan Roudane", <<>>),
            Elt("app", "write", "This app performs various unit root tests", <<>>),
            Elt("app", "file_uploader", "Choose an Excel file", <<>>) >>
    /\ pc' = IF uploaded = "none" THEN "done" ELSE "read"
    /\ UNCHANGED <<env, widgets, unhandled, locals, calls>>

\* lines 22-26
ReadExcel ==
    /\ pc = "read"
    /\ IF Files[uploaded].parses
       THEN /\ df' = Files[uploaded].cols
            /\ output' = output \o
                 << Elt("app", "write", "### Preview of uploaded data:", <<>>),
                    Elt("app", "dataframe", "", Preview(df')) >>
            /\ pc' = "filter"
            /\ UNCHANGED unhandled
       ELSE /\ Crash("read_excel")
            /\ UNCHANGED <<df, output>>
    /\ UNCHANGED <<env, widgets, numeric_columns, selected_column, data, run, result, calls>>

\* lines 29-33
NumericColumns ==
    /\ pc = "filter"
    /\ numeric_columns' = SelectNumeric(df)
    /\ IF numeric_columns' = <<>>
       THEN /\ output' = Append(output,
                 Elt("app", "error", "No numeric columns found in the uploaded file.", <<>>))
            /\ pc' = "done"
       ELSE /\ pc' = "select"
            /\ UNCHANGED output
    /\ UNCHANGED <<env, widgets, unhandled, df, selected_column, data, run, result, calls>>

\* lines 35-45: the selectbox returns the stored choice when it is still one
\* of the options, and the first option otherwise
SelectAndPlot ==
    /\ pc = "select"
    /\ selected_column' = IF sel \in Range(numeric_columns) THEN sel ELSE numeric_columns[1]
    /\ sel' = selected_column'
    /\ data' = Dropna(df[Column(df, selected_column')].cells)
    /\ output' = output \o
         << Elt("app", "selectbox", "Select a variable for unit root testing:", numeric_columns),
            Elt("app", "write", "### Time Series Plot:", <<>>),
            Elt("app", "pyplot", "Time Series: " \o selected_column', data') >>
    /\ pc' = "options"
    /\ UNCHANGED <<env, uploaded, chk, clicked, unhandled, df, numeric_columns, run, result, calls>>

\* lines 48-55
TestOptions ==
    /\ pc = "options"
    /\ run' = chk
    /\ output' = output \o
         << Elt("app", "write", "### Select Unit Root Tests to Perform:", <<>>),
            Elt("app", "checkbox", "Augmented Dickey-Fuller (ADF) Test", <<>>),
            Elt("app", "checkbox", "KPSS Test", <<>>),
            Elt("app", "checkbox", "Phillips-Perron (PP) Test", <<>>),
            Elt("app", "checkbox", "Range Unit Root Test", <<>>),
            Elt("app", "button", "Run Tests", <<>>) >>
         \o (IF clicked THEN <<Elt("app", "write", "## Test Results", <<>>)>> ELSE <<>>)
    /\ pc' = IF clicked THEN "adf" ELSE "done"
    /\ UNCHANGED <<env, widgets, unhandled, df, numeric_columns, selected_column, data,
                   result, calls>>

run_adf == run["ADF"]
run_kpss == run["KPSS"]
run_pp == run["PP"]
\* run_rur, were the last block gated by the Phillips-Perron checkbox
run_rur_as_pp == run["PP"]
run_rur == run["RUR"]

Heading(kind, title) ==
    << Elt(kind, "write", "### " \o title, <<>>),
       Elt(kind, "write", "**Null Hypothesis** / **Alternative Hypothesis**", <<>>) >>

\* lines 58-82: adfuller is called outside any try block
AdfBlock ==
    /\ pc = "adf"
    /\ IF run_adf
       THEN LET r == adfuller(data) IN
            /\ calls' = [calls EXCEPT !["ADF"] = @ + 1]
            /\ IF r.ok
               THEN /\ result' = r
                    /\ output' = output \o Heading("ADF", "Augmented Dickey-Fuller Test")
                         \o << Elt("ADF", "dataframe", "", AdfTable(result')),
                               AdfVerdict(result') >>
                    /\ pc' = NextPc("adf")
                    /\ UNCHANGED unhandled
               ELSE /\ output' = output \o Heading("ADF", "Augmented Dickey-Fuller Test")
                    /\ Crash("adfuller")
                    /\ UNCHANGED result
       ELSE /\ pc' = NextPc("adf")
            /\ UNCHANGED <<output, result, calls, unhandled>>
    /\ UNCHANGED <<env, widgets, df, numeric_columns, selected_column, data, run>>

\* lines 85-111
KpssBlock ==
    /\ pc = "kpss"
    /\ IF run_kpss
       THEN LET r == kpss(data) IN
            /\ calls' = [calls EXCEPT !["KPSS"] = @ + 1]
            /\ IF r.ok
               THEN /\ result' = r
                    /\ output' = output \o Heading("KPSS", "KPSS Test")
                         \o << Elt("KPSS", "dataframe", "", KpssTable(result')),
                               KpssVerdict(result') >>
               ELSE /\ output' = output \o Heading("KPSS", "KPSS Test")
                         \o << Elt("KPSS", "error", "Error in KPSS test: " \o r.err, <<>>) >>
                    /\ UNCHANGED result
       ELSE UNCHANGED <<output, result, calls>>
    /\ pc' = NextPc("kpss")
    /\ UNCHANGED <<env, widgets, unhandled, df, numeric_columns, selected_column, data, run>>

\* lines 114-151: pp is a local of this block; result is left alone
PPBlock ==
    /\ pc = "pp"
    /\ IF run_pp
       THEN LET pp == PhillipsPerron(data) IN
            /\ calls' = [calls EXCEPT !["PP"] = @ + 1]
            /\ IF pp.ok
               THEN output' = output \o Heading("PP", "Phillips-Perron Test")
                         \o << Elt("PP", "dataframe", "", PPTable(pp)),
                               PPVerdict(pp),
                               Elt("PP", "text", "Detailed Phillips-Perron Test Results:", <<>>),
                               Elt("PP", "text", "summary", <<>>) >>
               ELSE output' = output \o Heading("PP", "Phillips-Perron Test")
                         \o << Elt("PP", "error", "Error in Phillips-Perron test: " \o pp.err, <<>>),
                               Elt("PP", "info",
                                   "Note: This test requires the 'arch' library. Install it using pip install arch",
                                   <<>>) >>
       ELSE UNCHANGED <<output, calls>>
    /\ pc' = NextPc("pp")
    /\ UNCHANGED <<env, widgets, unhandled, locals>>

\* lines 154-182
RurBlock ==
    /\ pc = "rur"
    /\ IF run_rur
       THEN LET r == range_unit_root_test(data) IN
            /\ calls' = [calls EXCEPT !["RUR"] = @ + 1]
            /\ IF r.ok
               THEN /\ result' = r
                    /\ output' = output \o Heading("RUR", "Range Unit Root Test")
                         \o << Elt("RUR", "dataframe", "", RurTable(result')),
                               RurVerdict(result') >>
               ELSE /\ output' = output \o Heading("RUR", "Range Unit Root Test")
                         \o << Elt("RUR", "error", "Error in Range Unit Root test: " \o r.err, <<>>) >>
                    /\ UNCHANGED result
       ELSE UNCHANGED <<output, result, calls>>
    /\ pc' = NextPc("rur")
    /\ UNCHANGED <<env, widgets, unhandled, df, numeric_columns, selected_column, data, run>>

----------------------------------------------------------------------------
(* User interactions: each one starts a new pass from the top of the script *)

Finished == pc \in {"done", "crashed"}

StartPass ==
    /\ pc' = "import"
    /\ unhandled' = "none"
    /\ output' = <<>>
    /\ df' = <<>>
    /\ numeric_columns' = <<>>
    /\ selected_column' = "none"
    /\ data' = <<>>
    /\ run' = [kind \in Kinds |-> FALSE]
    /\ result' = NoResult
    /\ calls' = [kind \in Kinds |-> 0]

\* line 18: the user uploads another file, or removes the uploaded one
Upload ==
    /\ Finished
    /\ Offered("file_uploader")
    /\ \E f \in FileNames \cup {"none"} :
          /\ f # uploaded
          /\ uploaded' = f
    /\ clicked' = FALSE
    /\ StartPass
    /\ UNCHANGED <<env, sel, chk>>

\* line 35: the user picks another of the offered columns
ChooseColumn ==
    /\ Finished
    /\ \E i \in 1..Len(output) :
          /\ output[i].elt = "selectbox"
          /\ \E c \in Range(output[i].tab) :
                /\ c # sel
                /\ sel' = c
    /\ clicked' = FALSE
    /\ StartPass
    /\ UNCHANGED <<env, uploaded, chk>>

\* lines 49-52: the user flips one checkbox
ToggleCheckbox ==
    /\ Finished
    /\ Offered("checkbox")
    /\ \E kind \in Kinds : chk' = [chk EXCEPT ![kind] = ~@]
    /\ clicked' = FALSE
    /\ StartPass
    /\ UNCHANGED <<env, uploaded, sel>>

\* line 54: the user presses "Run Tests"
ClickRunTests ==
    /\ Finished
    /\ Offered("button")
    /\ clicked' = TRUE
    /\ StartPass
    /\ UNCHANGED <<env, uploaded, sel, chk>>

Next ==
    \/ ImportModules
    \/ Intro
    \/ ReadExcel
    \/ NumericColumns
    \/ SelectAndPlot
    \/ TestOptions
    \/ AdfBlock
    \/ KpssBlock
    \/ PPBlock
    \/ RurBlock
    \/ Upload
    \/ ChooseColumn
    \/ ToggleCheckbox
    \/ ClickRunTests

Spec == Init /\ [][Next]_vars

----------------------------------------------------------------------------
(* Vocabulary of the properties *)

Has(kind, elt) ==
    \E i \in 1..Len(output) : output[i].sec = kind /\ output[i].elt = elt

\* the routine of a test kind, applied to a series
Invoke(kind, x) ==
    CASE kind = "ADF" -> adfuller(x) [] kind = "KPSS" -> kpss(x)
      [] kind = "PP" -> PhillipsPerron(x) [] kind = "RUR" -> range_unit_root_test(x)

\* a pass triggered by "Run Tests" that went through the checkboxes and is over
RunOver == clicked /\ Finished /\ Offered("button")

Reported(kind) == Has(kind, "dataframe") \/ Has(kind, "error")

Rank(sec) ==
    CASE sec = "app" -> 0 [] sec = "ADF" -> 1 [] sec = "KPSS" -> 2
      [] sec = "PP" -> 3 [] sec = "RUR" -> 4

SaysStationary(msg) ==
    /\ Len(msg) >= Len("The series is stationary")
    /\ SubSeq(msg, 1, Len("The series is stationary")) = "The series is stationary"

SaysNonStationary(msg) ==
    /\ Len(msg) >= Len("The series is non-stationary")
    /\ SubSeq(msg, 1, Len("The series is non-stationary")) = "The series is non-stationary"

Verdicts(kind) ==
    {i \in 1..Len(output) : output[i].sec = kind /\ output[i].elt \in {"success", "warning"}}

\* the table rendered for a test kind
TableOf(kind) ==
    output[CHOOSE i \in 1..Len(output) :
              output[i].sec = kind /\ output[i].elt = "dataframe"].tab

IsCritLabel(label) ==
    /\ Len(label) > Len(CritPrefix)
    /\ SubSeq(label, 1, Len(CritPrefix)) = CritPrefix
    /\ SubSeq(label, Len(label), Len(label)) = ")"

\* the label between "Critical Value (" and ")"
KeyOf(label) == SubSeq(label, Len(CritPrefix) + 1, Len(label) - 1)

CritCols(tab) == SelectSeq(tab, LAMBDA e : IsCritLabel(e[1]))

NumericNames(cols) ==
    {cols[i].name : i \in {j \in 1..Len(cols) : cols[j].dtype \in {"int64", "float64"}}}

----------------------------------------------------------------------------
(* The claims *)

\* C1: when a run of "Run Tests" is over, every enabled test kind whose
\* routine failed has an error message reported for it, and every other
\* enabled kind was still invoked and has its own table or error message; no
\* exception is left unhandled.
C1_Independence ==
    RunOver =>
        \A kind \in Kinds :
            (run[kind] /\ calls[kind] > 0 /\ ~Invoke(kind, data).ok) =>
                /\ unhandled = "none"
                /\ Has(kind, "error")
                /\ \A other \in Kinds \ {kind} :
                      run[other] => (calls[other] = 1 /\ Reported(other))

\* C2: a test that rendered its table rendered exactly one verdict, and the
\* verdict says "stationary" exactly when p <= 0.05 for ADF, PP and RUR and
\* exactly when p > 0.05 for KPSS, and "non-stationary" otherwise; a test
\* without a table rendered no verdict.
C2_VerdictPolarity ==
    \A kind \in Kinds :
        IF Has(kind, "dataframe")
        THEN /\ Cardinality(Verdicts(kind)) = 1
             /\ \A i \in Verdicts(kind) :
                   LET p == Invoke(kind, data).p
                       stationary == IF kind = "KPSS" THEN p > Alpha ELSE p <= Alpha
                   IN  /\ SaysStationary(output[i].msg) <=> stationary
                       /\ SaysNonStationary(output[i].msg) <=> ~stationary
        ELSE Verdicts(kind) = {}

\* C2 witness: at the boundary p = 0.05, ADF reported stationary and KPSS
\* reported non-stationary, and PP reported non-stationary above it.
C2_Witness ==
    /\ pc = "done"
    /\ Has("ADF", "success") /\ lib["ADF"].p = Alpha
    /\ Has("KPSS", "warning") /\ lib["KPSS"].p = Alpha
    /\ Has("PP", "warning") /\ lib["PP"].p > Alpha
    /\ Has("RUR", "success") /\ lib["RUR"].p < Alpha

\* C3: a test kind whose checkbox is off has no element in the output and
\* its routine is not invoked.
C3_DisabledSuppressed ==
    \A kind \in Kinds :
        ~chk[kind] =>
            /\ calls[kind] = 0
            /\ \A i \in 1..Len(output) : output[i].sec # kind

\* C3 witness: a run is over with Range Unit Root off and the three other
\* kinds on and reported.
C3_Witness ==
    /\ RunOver
    /\ ~chk["RUR"] /\ chk["ADF"] /\ chk["KPSS"] /\ chk["PP"]
    /\ Reported("ADF") /\ Reported("KPSS") /\ Reported("PP")

\* C4: the output is ordered: whatever precedes the tests, then everything of
\* ADF, then everything of KPSS, then everything of Phillips-Perron, then
\* everything of Range Unit Root.
C4_OutputOrder ==
    \A i, j \in 1..Len(output) :
        i < j => Rank(output[i].sec) <= Rank(output[j].sec)

\* C4 witness: a run is over in which all four kinds rendered something, one
\* of them an error.
C4_Witness ==
    /\ RunOver
    /\ Has("ADF", "dataframe") /\ Has("KPSS", "error")
    /\ Has("PP", "dataframe") /\ Has("RUR", "dataframe")

\* C5: when the uploaded file cannot be parsed, the pass ends with an error
\* message reported and no exception left unhandled.
C5_LoadFailureReported ==
    (uploaded # "none" /\ ~Files[uploaded].parses /\ Finished) =>
        /\ unhandled = "none"
        /\ Has("app", "error")

\* C6: for a loaded table without a numeric column no selector, plot,
\* checkbox or button is ever offered and no routine is invoked, and the pass
\* ends normally with an error message; and whenever the selector is offered
\* its options are exactly the numeric columns of the loaded table.
C6_NumericColumnsOnly ==
    (uploaded # "none" /\ Files[uploaded].parses) =>
        LET numeric == NumericNames(Files[uploaded].cols) IN
        /\ numeric = {} =>
              /\ \A e \in {"selectbox", "pyplot", "checkbox", "button"} : ~Offered(e)
              /\ \A kind \in Kinds : calls[kind] = 0
              /\ Finished => (pc = "done" /\ unhandled = "none" /\ Has("app", "error"))
        /\ \A i \in 1..Len(output) :
              output[i].elt = "selectbox" =>
                  /\ Range(output[i].tab) = numeric
                  /\ Len(output[i].tab) = Cardinality(numeric)

\* C6 witness: the pass over a table of text and boolean columns has ended
\* with the error message.
C6_Witness ==
    /\ uploaded = "text"
    /\ pc = "done"
    /\ Has("app", "error")

\* C7: when the chosen column is empty after dropping missing values, a run
\* ends with no exception left unhandled, and every enabled test kind has an
\* error message and no table or verdict.
C7_EmptySeries ==
    (RunOver /\ data = <<>>) =>
        /\ unhandled = "none"
        /\ \A kind \in Kinds :
              run[kind] =>
                  /\ Has(kind, "error")
                  /\ ~Has(kind, "dataframe")
                  /\ Verdicts(kind) = {}

\* C8: a missing 'arch' package is a failure of the Phillips-Perron test
\* only: no pass ends on an unhandled exception because of it, a run with
\* Phillips-Perron enabled reports its error with the installation hint, and
\* the hint is never rendered for another test kind.
C8_MissingDependency ==
    /\ (~archInstalled /\ Finished) => unhandled = "none"
    /\ (~archInstalled /\ RunOver /\ run["PP"]) => (Has("PP", "error") /\ Has("PP", "info"))
    /\ \A i \in 1..Len(output) : output[i].elt = "info" => output[i].sec = "PP"

\* C9 as stated: for every test kind that rendered a table, the labels of its
\* critical-value columns are exactly the keys the routine returned, in the
\* routine's order, with the routine's values.
C9_CritRoundTrip ==
    \A kind \in Kinds :
        Has(kind, "dataframe") =>
            LET shown == CritCols(TableOf(kind))
                given == Invoke(kind, data).crit
            IN  /\ Len(shown) = Len(given)
                /\ \A i \in 1..Len(given) :
                      /\ KeyOf(shown[i][1]) = given[i][1]
                      /\ shown[i][2] = given[i][2]

\* C9 amended: for every test kind that rendered a table, its critical-value
\* columns are as many as the routine's entries, in the routine's order and
\* with the routine's values; the label of each is the routine's key for ADF,
\* KPSS and Range Unit Root, and the routine's key followed by "%" for
\* Phillips-Perron.
C9_CritRoundTrip_Amended ==
    \A kind \in Kinds :
        Has(kind, "dataframe") =>
            LET shown == CritCols(TableOf(kind))
                given == Invoke(kind, data).crit
            IN  /\ Len(shown) = Len(given)
                /\ \A i \in 1..Len(given) :
                      /\ KeyOf(shown[i][1]) =
                            IF kind = "PP" THEN given[i][1] \o "%" ELSE given[i][1]
                      /\ shown[i][2] = given[i][2]

\* C9 witness: a run is over in which all four kinds rendered their tables.
C9_Witness ==
    /\ RunOver
    /\ \A kind \in Kinds : Has(kind, "dataframe")

\* C10: when a run of "Run Tests" is over, the routine of every enabled test
\* kind has been invoked exactly once and that of every disabled kind not at
\* all.
C10_SingleAttempt ==
    RunOver =>
        \A kind \in Kinds : calls[kind] = IF run[kind] THEN 1 ELSE 0

====
